---------------------------- MODULE Spec2Model ----------------------------
(***************************************************************************)
(* A model of the Case Closed decision engine: board.py (grid utilities,   *)
(* cached flood fill), heuristic.py (longest safe path, territorial        *)
(* threat, heuristic_score), search.py (choose_move) and agent.py (the     *)
(* line-oriented agent process).                                           *)
(*                                                                         *)
(* A board is a list of rows, each a list of one-character markers; the    *)
(* Python subscript board[r][c] (0-based) is Cell(board, r, c).  A         *)
(* position is the pair <<row, col>>.  Scores are Python floats; the model *)
(* keeps them exact as fractions num / (100 * den), see heuristic_score.   *)
(***************************************************************************)
EXTENDS Integers, Sequences, FiniteSets, TLC

VARIABLES
    board,      \* state["board"]: the caller's list of lists
    given,      \* the board and positions as handed to the engine (history)
    you,        \* state["you"], also the pos / start argument of board.py
    opp,        \* state["opponent"], or NoOpp when the key is missing
    oppDir,     \* state["opponent_last_direction"], or NoDir
    maxDepth,   \* the max_depth argument of territorial_threat
    last,       \* the last call made and what it returned
    seen,       \* flood_fill_area: the set seen
    stack,      \* flood_fill_area: the worklist
    fpc,        \* flood_fill_area: "idle", "run" or "done"
    cache,      \* lru_cache of flood_fill_area, least recently used first
    apc,        \* agent.py main: position in the loop
    stdin,      \* agent.py: the input lines not read yet
    stdout,     \* agent.py: the lines written to the move channel
    stderr,     \* agent.py: number of diagnostic lines written
    arena,      \* board.py: the module globals <<H, W>> that inb tests against
    lsp,        \* longest_safe_path: the run, step by step
    game        \* case_closed_game.py: the Game object and the last result

vars == <<board, given, you, opp, oppDir, maxDepth, last, seen, stack, fpc,
          cache, apc, stdin, stdout, stderr, arena, lsp, game>>
inputVars == <<board, given, you, opp, oppDir, maxDepth>>
floodVars == <<seen, stack, fpc>>
agentVars == <<apc, stdin, stdout, stderr>>
otherVars == <<arena, lsp, game>>

---------------------------------------------------------------------------
(* Bounds of the model.  H and W are the arena size of board.py line 13    *)
(* (18 x 20 there), scaled down so that every board can be enumerated.     *)

H == 2
W == 3

\* board.py:16
DIRS == <<"UP", "DOWN", "LEFT", "RIGHT">>

\* board.py:17-22
DELTAS == [d \in {"UP", "DOWN", "LEFT", "RIGHT"} |->
             CASE d = "UP" -> <<-1, 0>>
               [] d = "DOWN" -> <<1, 0>>
               [] d = "LEFT" -> <<0, -1>>
               [] d = "RIGHT" -> <<0, 1>>]

\* The two markers board.py and heuristic.py compare cells against.
OPEN == " "
WALL == "X"

\* A key missing from the state dict: "opponent", "opponent_last_direction".
NoOpp == <<>>
NoDir == "<absent>"
\* Python's None, as an exception slot and as an entry of a distance map.
None == "<None>"
NoDist == -1
\* The outcome of a call that raised exception e.
Raise(e) == [kind |-> "raise", exc |-> e]

\* F applied to the value of x, x evaluated once (Python evaluates an
\* argument before the call).
Eager(F(_), x) == CHOOSE r \in {F(t) : t \in {x}} : TRUE

\* board[r][c] on a list of lists, 0-based.
Cell(b, r, c) == b[r + 1][c + 1]

\* board[r][c] = v on a list of lists.
SetCell(b, r, c, v) == [b EXCEPT ![r + 1][c + 1] = v]

\* board.py:27-29: the bounds are the module globals H, W (the state
\* component arena), whatever board the caller evaluates.
inb(r, c) == 0 <= r /\ r < arena[1] /\ 0 <= c /\ c < arena[2]

Dest(p, d) == <<p[1] + DELTAS[d][1], p[2] + DELTAS[d][2]>>

\* The cell of board b at position p exists (whatever the arena size).
OnBoard(b, p) == (p[1] + 1) \in DOMAIN b /\ (p[2] + 1) \in DOMAIN b[p[1] + 1]

\* The subscript board[nr][nc] raises IndexError: the position passed the
\* inb test and the board has no such cell.
IndexError(b, n) == inb(n[1], n[2]) /\ ~OnBoard(b, n)

\* legal_moves without the test of the destination's marker.
legal_moves_any_marker(b, p) ==
    LET ok(d) == LET n == Dest(p, d) IN inb(n[1], n[2])
    IN SelectSeq(DIRS, ok)

\* board.py:50-53: a destination that passes inb and is not on the board
\* makes board[nr][nc] raise.
legal_moves_exc(b, p) ==
    IF \E k \in 1..Len(DIRS) : IndexError(b, Dest(p, DIRS[k]))
    THEN "IndexError" ELSE None

\* board.py:43-55
legal_moves(b, p) ==
    LET ok(d) == LET n == Dest(p, d) IN inb(n[1], n[2]) /\ Cell(b, n[1], n[2]) = OPEN
    IN IF legal_moves_exc(b, p) # None THEN Raise(legal_moves_exc(b, p))
       ELSE SelectSeq(DIRS, ok)

\* board.py:84-86: rebuilds the board row by row, cell by cell.
to_tuple_board(b) == [r \in 1..Len(b) |-> [c \in 1..Len(b[r]) |-> b[r][c]]]

\* board.py:75-80: the for loop over DIRS for one popped cell; k is the
\* index of the direction reached, s the pair of seen and stack so far.
RECURSIVE flood_visit(_, _, _, _)
flood_visit(bt, p, k, s) ==
    IF k > Len(DIRS) \/ s.exc # None THEN s
    ELSE LET n == Dest(p, DIRS[k])
             take == n \notin s.seen /\ inb(n[1], n[2]) /\ Cell(bt, n[1], n[2]) = OPEN
         IN IF n \notin s.seen /\ IndexError(bt, n)
            THEN [s EXCEPT !.exc = "IndexError"]
            ELSE Eager(LAMBDA t : flood_visit(bt, p, k + 1, t),
                   IF take THEN [seen |-> s.seen \cup {n}, stack |-> Append(s.stack, n),
                                 exc |-> None]
                   ELSE s)

\* board.py:73-74 with the loop body: takes the i-th pending cell off the
\* worklist and visits its neighbours.  stack.pop() is i = Len(stack).
flood_pop(bt, s, i) ==
    LET p == s.stack[i]
        rest == SubSeq(s.stack, 1, i - 1) \o SubSeq(s.stack, i + 1, Len(s.stack))
    IN flood_visit(bt, p, 1, [seen |-> s.seen, stack |-> rest, exc |-> None])

\* board.py:73-81: the while loop, popping from the end of the list.
RECURSIVE flood_loop(_, _)
flood_loop(bt, s) ==
    IF s.exc # None THEN Raise(s.exc)
    ELSE IF s.stack = <<>> THEN Cardinality(s.seen)
    ELSE Eager(LAMBDA t : flood_loop(bt, t), flood_pop(bt, s, Len(s.stack)))

\* The guard without the test of the start cell's marker.
flood_blocked_bounds_only(bt, start) == ~inb(start[1], start[2])

\* board.py:68: the guard that makes flood_fill_area return 0.
flood_blocked(bt, start) ==
    ~inb(start[1], start[2]) \/ Cell(bt, start[1], start[2]) # OPEN

\* board.py:62-81, the function under the lru_cache decorator.
flood_fill_uncached(bt, start) ==
    IF IndexError(bt, start) THEN Raise("IndexError")
    ELSE IF flood_blocked(bt, start) THEN 0
    ELSE flood_loop(bt, [seen |-> {start}, stack |-> <<start>>, exc |-> None])

\* board.py:61: lru_cache(maxsize=512).  The bound of the cache, scaled
\* down so that it overflows within a few calls.
maxsize == 2

\* A cache keyed by the start position alone.
cache_key_start_only(bt, start) == <<start>>

\* board.py:61-62: lru_cache keys an entry by the call's arguments, compared
\* by value.
cache_key(bt, start) == <<bt, start>>

\* The place of key k in cache c (a list of entries, least recently used
\* first), 0 when it is not there.
cache_find(c, k) ==
    IF \E i \in 1..Len(c) : c[i].key = k
    THEN CHOOSE i \in 1..Len(c) : c[i].key = k
    ELSE 0

\* board.py:61-81: a call of the decorated flood_fill_area.  A hit returns
\* the stored result and makes the entry the most recently used; a miss
\* runs the function, stores the result and, the cache being full, drops
\* the least recently used entry.
flood_fill_area(c, bt, start) ==
    LET k == cache_key(bt, start)
        i == cache_find(c, k)
        other == SelectSeq(c, LAMBDA e : e.key # k)
        v == flood_fill_uncached(bt, start)
        full == Len(c) >= maxsize
    IN IF i # 0
       THEN [ret |-> c[i].val, hit |-> TRUE, evicted |-> FALSE,
             cache |-> Append(other, c[i])]
       ELSE [ret |-> v, hit |-> FALSE, evicted |-> full,
             cache |-> Append(IF full THEN Tail(c) ELSE c, [key |-> k, val |-> v])]

---------------------------------------------------------------------------
(* heuristic.py.  The weights are floats in the source; here they are in   *)
(* hundredths (W_PATH_DIFF = +0.03 is 3), and a score is the exact         *)
(* fraction num / (100 * den), den > 0, in place of the rounded float.     *)

W_PATH_DIFF == 3
W_HEADON == -50
W_RISK == -20
W_SURVIVAL == 10
W_ENDGAME == 30
W_EXPLORATION == 5
W_FREEDOM == 2
W_TERRITORY_THREAT == -2
W_FATAL == -999900

\* The default of territorial_threat's max_depth parameter.
DEFAULT_MAX_DEPTH == 6

Max(a, b) == IF a >= b THEN a ELSE b

Score(n, d) == [kind |-> "score", num |-> n, den |-> d]
Fatal == Score(W_FATAL, 1)

\* a < b and a == b on scores
ScoreLT(a, b) == a.num * b.den < b.num * a.den
ScoreEQ(a, b) == a.num * b.den = b.num * a.den

\* simulate_move with the row and column deltas applied the wrong way round.
simulate_move_swapped(b, pos, move) ==
    LET n == <<pos[1] + DELTAS[move][2], pos[2] + DELTAS[move][1]>>
    IN IF ~inb(n[1], n[2]) \/ Cell(b, n[1], n[2]) = WALL
       THEN [pos |-> pos, crash |-> TRUE]
       ELSE [pos |-> n, crash |-> FALSE]

\* heuristic.py:29-34
simulate_move(b, pos, move) ==
    LET n == Dest(pos, move)
    IN IF ~inb(n[1], n[2]) \/ Cell(b, n[1], n[2]) = WALL
       THEN [pos |-> pos, crash |-> TRUE]
       ELSE [pos |-> n, crash |-> FALSE]

\* heuristic.py:37-38
next_legal_moves(b, pos) == Len(legal_moves(b, pos))

\* heuristic.py:60-68: the neighbours of pos pushed on the stack, in the
\* order of DELTAS.values().
lsp_next(b, pos, visited) ==
    LET ok(d) == LET n == Dest(pos, d)
                 IN /\ inb(n[1], n[2])
                    /\ Cell(b, n[1], n[2]) # WALL
                    /\ n \notin visited
        ds == SelectSeq(DIRS, ok)
    IN [k \in 1..Len(ds) |-> <<Dest(pos, ds[k]), visited \cup {pos}>>]

\* A memo that is never found to hold the position.
memo_hit_never(memo, pos) == FALSE

\* heuristic.py:54
memo_hit(memo, pos) == pos \in DOMAIN memo

\* best_here counting the neighbours pushed.
best_here_count(nxt) == Len(nxt)

\* heuristic.py:58, 68: 0, or 1 once a neighbour was pushed.
best_here_of(nxt) == IF nxt = <<>> THEN 0 ELSE 1

\* heuristic.py:53-71: one iteration of the while loop.  s.stack holds
\* <<pos, visited>> pairs, s.memo maps the positions expanded so far to
\* their best_here; s.hit tells whether the iteration found pos in memo,
\* s.exc the exception it raised.
lsp_step(b, s) ==
    LET pos == s.stack[Len(s.stack)][1]
        visited == s.stack[Len(s.stack)][2]
        rest == SubSeq(s.stack, 1, Len(s.stack) - 1)
    IN IF memo_hit(s.memo, pos)
       THEN [stack |-> rest, memo |-> s.memo,
             max_len |-> Max(s.max_len, s.memo[pos] + Cardinality(visited)),
             hit |-> TRUE, exc |-> None]
       ELSE IF \E d \in DOMAIN DELTAS : IndexError(b, Dest(pos, d))
       THEN [stack |-> rest, memo |-> s.memo, max_len |-> s.max_len,
             hit |-> FALSE, exc |-> "IndexError"]
       ELSE LET nxt == lsp_next(b, pos, visited)
                best_here == best_here_of(nxt)
            IN [stack |-> rest \o nxt,
                memo |-> [p \in DOMAIN s.memo \cup {pos} |->
                            IF p = pos THEN best_here ELSE s.memo[p]],
                max_len |-> Max(s.max_len, Cardinality(visited) + best_here),
                hit |-> FALSE, exc |-> None]

\* heuristic.py:48-50: the locals before the loop.
lsp_start(start) ==
    [stack |-> <<<<start, {}>>>>, memo |-> [p \in {} |-> 0], max_len |-> 0,
     hit |-> FALSE, exc |-> None]

\* heuristic.py:52-73: the while loop, to its end or to the exception.
RECURSIVE lsp_loop(_, _)
lsp_loop(b, s) ==
    IF s.exc # None THEN Raise(s.exc)
    ELSE IF s.stack = <<>> THEN s.max_len
    ELSE Eager(LAMBDA t : lsp_loop(b, t), lsp_step(b, s))

\* heuristic.py:46-73
longest_safe_path(b, start) == lsp_loop(b, lsp_start(start))

\* heuristic.py:93-99: the for loop of bfs for the cell (p, d) just taken
\* off the queue; s is the pair of dist_map and queue so far.
RECURSIVE bfs_visit(_, _, _, _, _)
bfs_visit(b, p, d, k, s) ==
    IF k > Len(DIRS) \/ s.exc # None THEN s
    ELSE LET n == Dest(p, DIRS[k])
             take == /\ inb(n[1], n[2])
                     /\ Cell(b, n[1], n[2]) # WALL
                     /\ s.dist[n] = NoDist
         IN IF IndexError(b, n)
            THEN [s EXCEPT !.exc = "IndexError"]
            ELSE Eager(LAMBDA t : bfs_visit(b, p, d, k + 1, t),
                   IF take THEN [dist |-> [s.dist EXCEPT ![n] = d + 1],
                                 q |-> Append(s.q, <<n, d + 1>>),
                                 exc |-> None]
                   ELSE s)

\* heuristic.py:89-99: the while loop of bfs, to its end or to the
\* exception; the result is the dist_map and the exception raised.
RECURSIVE bfs_loop(_, _, _)
bfs_loop(b, max_depth, s) ==
    IF s.q = <<>> \/ s.exc # None THEN [dist |-> s.dist, exc |-> s.exc]
    ELSE LET p == s.q[1][1]
             d == s.q[1][2]
             rest == [dist |-> s.dist, q |-> Tail(s.q), exc |-> None]
         IN Eager(LAMBDA t : bfs_loop(b, max_depth, t),
                  IF d >= max_depth THEN rest ELSE bfs_visit(b, p, d, 1, rest))

\* heuristic.py:83-88: dist_map is len(board) x len(board[0]), all None,
\* then 0 at start.
bfs(b, start, max_depth) ==
    LET cells == (0..(Len(b) - 1)) \X (0..(Len(b[1]) - 1))
        dist0 == [c \in cells |-> IF c = start THEN 0 ELSE NoDist]
    IN bfs_loop(b, max_depth, [dist |-> dist0, q |-> <<<<start, 0>>>>, exc |-> None])

\* The count with ties going to the agent: < in place of <=.
threat_ratio_strict(dist_you, dist_opp) ==
    LET mine == {c \in DOMAIN dist_you : dist_you[c] # NoDist}
        threat == Cardinality({c \in mine :
                      dist_opp[c] # NoDist /\ dist_opp[c] < dist_you[c]})
        total == Cardinality(mine)
    IN IF total = 0 THEN [threat |-> 0, total |-> 1]
       ELSE [threat |-> threat, total |-> total]

\* heuristic.py:104-114: the count over the two distance maps.  The ratio
\* threat / total is returned as the pair of its numerator and
\* denominator; 0.0 is threat 0 over total 1.
threat_ratio_of(dist_you, dist_opp) ==
    LET mine == {c \in DOMAIN dist_you : dist_you[c] # NoDist}
        threat == Cardinality({c \in mine :
                      dist_opp[c] # NoDist /\ dist_opp[c] <= dist_you[c]})
        total == Cardinality(mine)
    IN IF total = 0 THEN [threat |-> 0, total |-> 1]
       ELSE [threat |-> threat, total |-> total]

\* heuristic.py:100-101: the exception of the first bfs that raises.
territorial_threat_exc(b, y, o, max_depth) ==
    IF bfs(b, y, max_depth).exc # None THEN bfs(b, y, max_depth).exc
    ELSE bfs(b, o, max_depth).exc

\* heuristic.py:77-114
territorial_threat(b, y, o, max_depth) ==
    IF territorial_threat_exc(b, y, o, max_depth) # None
    THEN Raise(territorial_threat_exc(b, y, o, max_depth))
    ELSE threat_ratio_of(bfs(b, y, max_depth).dist, bfs(b, o, max_depth).dist)

\* board = state["board"] without the copy: the local variable refers to
\* the caller's own list.
deepcopy_alias(ref) == ref

\* heuristic.py:122: deepcopy gives a fresh object; the result names the
\* object the local variable board refers to.
deepcopy(ref) == "private"

Bool(x) == IF x THEN 1 ELSE 0

\* heuristic.py:147-148 with the heading ignored: the opponent is
\* predicted to stay where it is.
predicted_stay(o, opp_dir) == o

\* heuristic.py:147-148: the opponent's cell one step along its heading;
\* DELTAS.get gives (0, 0) for a heading that is no direction name.
predicted(o, opp_dir) ==
    LET delta == IF opp_dir \in DOMAIN DELTAS THEN DELTAS[opp_dir] ELSE <<0, 0>>
    IN <<o[1] + delta[1], o[2] + delta[2]>>

\* heuristic.py:137-150, 160, 163: the terms of the score of a candidate
\* that passed both checks, on the marked board b.
score_terms(b, new_you, o, opp_dir) ==
    Eager(LAMBDA threat_ratio :
            [kind |-> "terms",
             my_path_len |-> longest_safe_path(b, new_you),
             opp_path_len |-> longest_safe_path(b, o),
             threat_ratio |-> threat_ratio,
             headon |-> (new_you = o),
             risk |-> (new_you = predicted(o, opp_dir)),
             endgame |-> \A r \in 1..Len(b) : \A c \in 1..Len(b[r]) : b[r][c] = WALL,
             explore |-> (Cell(b, new_you[1], new_you[2]) = OPEN),
             freedom |-> next_legal_moves(b, new_you)],
          territorial_threat(b, new_you, o, DEFAULT_MAX_DEPTH))

NoTerms == [kind |-> "none"]

\* heuristic.py:140, 153-169: the weighted sum of the terms.
aggregate_terms(t) ==
    LET whole == W_SURVIVAL + W_PATH_DIFF * (t.my_path_len - t.opp_path_len)
                   + W_HEADON * Bool(t.headon)
                   + W_RISK * Bool(t.risk) + W_EXPLORATION * Bool(t.explore)
                   + W_FREEDOM * t.freedom + W_ENDGAME * Bool(t.endgame)
    IN Score(whole * t.threat_ratio.total + W_TERRITORY_THREAT * t.threat_ratio.threat,
             t.threat_ratio.total)

\* heuristic.py:137-169: the score of a candidate that passed both checks,
\* on the marked board b.
aggregate(b, new_you, o, opp_dir) ==
    Eager(LAMBDA t : aggregate_terms(t), score_terms(b, new_you, o, opp_dir))

\* heuristic.py:131-132 without the second line: only the agent's own
\* cell is marked.
mark_cells_you_only(b, y, o) == SetCell(b, y[1], y[2], WALL)

\* heuristic.py:131-132
mark_cells(b, y, o) == SetCell(SetCell(b, y[1], y[2], WALL), o[1], o[2], WALL)

\* heuristic.py:121-169.  b is the caller's state["board"], y, o, od the
\* other entries of state.  The result holds what is returned or raised,
\* the caller's board as the call leaves it, and the terms the score was
\* summed from (NoTerms when the call returned before computing them).
heuristic_score(b, y, o, od, move) ==
    LET ref == deepcopy("caller")
        heap0 == [caller |-> b, private |-> b]
        opp_dir == IF od = NoDir THEN "UP" ELSE od
        sim == simulate_move(heap0[ref], y, move)
        heap1 == [heap0 EXCEPT ![ref] = mark_cells(heap0[ref], y, o)]
    IN IF o = NoOpp
       THEN [ret |-> Raise("KeyError"), board |-> heap0.caller, terms |-> NoTerms]
       ELSE IF sim.crash THEN [ret |-> Fatal, board |-> heap0.caller, terms |-> NoTerms]
       ELSE IF ~inb(sim.pos[1], sim.pos[2])
                 \/ Cell(heap1[ref], sim.pos[1], sim.pos[2]) = WALL
            THEN [ret |-> Fatal, board |-> heap1.caller, terms |-> NoTerms]
       ELSE Eager(LAMBDA t : [ret |-> aggregate_terms(t), board |-> heap1.caller,
                              terms |-> t],
                  score_terms(heap1[ref], sim.pos, o, opp_dir))

---------------------------------------------------------------------------
(* search.py                                                               *)

\* search.py:14
MOVES == <<"UP", "DOWN", "LEFT", "RIGHT">>

Move(m) == [kind |-> "move", move |-> m]

\* search.py:16-20
is_valid_move(b, pos, move) ==
    LET n == Dest(pos, move)
    IN inb(n[1], n[2]) /\ Cell(b, n[1], n[2]) # WALL

\* search.py:27: np.array(..., dtype="<U1") builds a new array holding the
\* markers of the board.
np_array(b) == [r \in 1..Len(b) |-> [c \in 1..Len(b[r]) |-> b[r][c]]]

\* Nothing chosen for a trapped agent.
random_choice_none(q) == {None}

\* search.py:32: random.choice(q) returns any element of q.
random_choice(q) == {q[k] : k \in 1..Len(q)}

\* search.py:35: the dict comprehension, one heuristic_score call per valid
\* move in order, each on the state as the calls before it left it.  acc
\* holds the scores so far, the caller's board and the exception raised.
RECURSIVE score_valid(_, _, _, _, _, _)
score_valid(y, o, od, valid, k, acc) ==
    IF k > Len(valid) \/ acc.exc # None THEN acc
    ELSE Eager(LAMBDA t : score_valid(y, o, od, valid, k + 1, t),
               Eager(LAMBDA r :
                       IF r.ret.kind = "raise"
                       THEN [scores |-> acc.scores, board |-> r.board, exc |-> r.ret.exc]
                       ELSE [scores |-> Append(acc.scores, r.ret), board |-> r.board,
                             exc |-> None],
                     heuristic_score(acc.board, y, o, od, valid[k])))

\* max with ties going to the last key instead of the first.
RECURSIVE last_max(_, _, _)
last_max(scores, k, best) ==
    IF k > Len(scores) THEN best
    ELSE last_max(scores, k + 1, IF ScoreLT(scores[k], scores[best]) THEN best ELSE k)

\* search.py:36: max(scores, key=scores.get) keeps the first key, in
\* insertion order, whose score no later key exceeds.
RECURSIVE first_max(_, _, _)
first_max(scores, k, best) ==
    IF k > Len(scores) THEN best
    ELSE first_max(scores, k + 1, IF ScoreLT(scores[best], scores[k]) THEN k ELSE best)

\* search.py:22-37: the set of outcomes of choose_move(state), each with
\* what is returned or raised and the caller's board afterwards.
choose_move(b, y, o, od) ==
    LET valid(m) == is_valid_move(np_array(b), y, m)
    IN Eager(LAMBDA valid_moves :
         IF valid_moves = <<>>
         THEN {[ret |-> Move(m), board |-> b] : m \in random_choice(MOVES)}
         ELSE Eager(LAMBDA sc :
                IF sc.exc # None
                THEN {[ret |-> Raise(sc.exc), board |-> sc.board]}
                ELSE {[ret |-> Move(valid_moves[first_max(sc.scores, 1, 1)]),
                       board |-> sc.board]},
                score_valid(y, o, od, valid_moves, 1,
                            [scores |-> <<>>, board |-> b, exc |-> None])),
         SelectSeq(MOVES, valid))

---------------------------------------------------------------------------
(* agent.py.  A Python value is a record with its type and, for a str, its *)
(* characters as a sequence.                                               *)

Str(chars) == [type |-> "str", s |-> chars]
PyNone == [type |-> "NoneType", s |-> <<>>]

UP == <<"U", "P">>
DOWN == <<"D", "O", "W", "N">>
LEFT == <<"L", "E", "F", "T">>
RIGHT == <<"R", "I", "G", "H", "T">>

\* agent.py:22
VALID_MOVES == {UP, DOWN, LEFT, RIGHT}

Whitespace == {" ", "\t", "\n", "\r"}
LowerCase == <<"a", "b", "c", "d", "e", "f", "g", "h", "i", "j", "k", "l", "m",
               "n", "o", "p", "q", "r", "s", "t", "u", "v", "w", "x", "y", "z">>
UpperCase == <<"A", "B", "C", "D", "E", "F", "G", "H", "I", "J", "K", "L", "M",
               "N", "O", "P", "Q", "R", "S", "T", "U", "V", "W", "X", "Y", "Z">>

\* str.strip(): drops the leading and the trailing whitespace.
RECURSIVE lstrip(_)
lstrip(q) == IF q # <<>> /\ Head(q) \in Whitespace THEN lstrip(Tail(q)) ELSE q
RECURSIVE rstrip(_)
rstrip(q) ==
    IF q # <<>> /\ q[Len(q)] \in Whitespace THEN rstrip(SubSeq(q, 1, Len(q) - 1)) ELSE q
strip(q) == rstrip(lstrip(q))

\* str.upper(): every lower-case letter replaced by its upper-case letter.
upper(q) ==
    [i \in 1..Len(q) |->
        IF \E k \in 1..Len(LowerCase) : LowerCase[k] = q[i]
        THEN UpperCase[CHOOSE k \in 1..Len(LowerCase) : LowerCase[k] = q[i]]
        ELSE q[i]]

\* sanitize_move that tests the normalised text and returns the text as it
\* came.
sanitize_move_raw(move) ==
    IF move.type = "str" /\ upper(strip(move.s)) \in VALID_MOVES
    THEN [ret |-> move.s, warned |-> 0]
    ELSE [ret |-> UP, warned |-> 1]

\* agent.py:25-35: the move returned and the number of lines written to
\* stderr.
sanitize_move(move) ==
    IF move.type = "str" /\ upper(strip(move.s)) \in VALID_MOVES
    THEN [ret |-> upper(strip(move.s)), warned |-> 0]
    ELSE [ret |-> UP, warned |-> 1]

\* agent.py:58-62: the value main holds after the try statement, for an
\* outcome of choose_move that is a value or an Exception.
move_after_try(out) == IF out.kind = "return" THEN out.value ELSE Str(UP)

---------------------------------------------------------------------------
(* Inputs.                                                                 *)

MARKERS == {OPEN, WALL}
Boards == [1..H -> [1..W -> MARKERS]]
Positions == (0..(H - 1)) \X (0..(W - 1))
\* Positions together with the ring of cells just outside the arena.
ExtPositions == ((-1)..H) \X ((-1)..W)
DirSet == {DIRS[k] : k \in 1..Len(DIRS)}
Range(q) == {q[k] : k \in 1..Len(q)}

NoCall == [op |-> "none"]
NoFlood == /\ seen = {} /\ stack = <<>> /\ fpc = "idle"
NoPath == [pc |-> "idle"]
NoGame == [pc |-> "off"]
\* The parts of the state a specification of the engine on arena-sized
\* boards does not use.
NoOther == /\ arena = <<H, W>> /\ lsp = NoPath /\ game = NoGame
NoAgent == /\ apc = "off" /\ stdin = <<>> /\ stdout = <<>> /\ stderr = 0

---------------------------------------------------------------------------
(* SpecBoard: board.py called on every arena board and every position.     *)

InitBoard ==
    /\ board \in Boards
    /\ you \in ExtPositions
    /\ opp = NoOpp /\ oppDir = NoDir /\ maxDepth = 0
    /\ given = [board |-> board, you |-> you, opp |-> opp]
    /\ last = NoCall
    /\ NoOther
    /\ NoFlood
    /\ cache = <<>>
    /\ NoAgent

\* legal_moves(board, you)
LegalMoves ==
    /\ fpc = "idle" /\ lsp.pc = "idle" /\ last = NoCall
    /\ last' = [op |-> "legal_moves", ret |-> legal_moves(board, you),
                exc |-> legal_moves_exc(board, you)]
    /\ UNCHANGED <<inputVars, floodVars, cache, agentVars, otherVars>>

\* flood_fill_area(to_tuple_board(board), you), lines 67-72
FloodCall ==
    /\ fpc = "idle" /\ lsp.pc = "idle" /\ last = NoCall
    /\ IF IndexError(to_tuple_board(board), you)
       THEN /\ fpc' = "raised"
            /\ last' = [op |-> "flood_fill_area", ret |-> NoDist, exc |-> "IndexError"]
            /\ UNCHANGED <<seen, stack>>
       ELSE IF flood_blocked(to_tuple_board(board), you)
       THEN /\ fpc' = "done"
            /\ last' = [op |-> "flood_fill_area", ret |-> 0, exc |-> None]
            /\ UNCHANGED <<seen, stack>>
       ELSE /\ fpc' = "run"
            /\ seen' = {you}
            /\ stack' = <<you>>
            /\ UNCHANGED last
    /\ UNCHANGED <<inputVars, cache, agentVars, otherVars>>

\* One iteration of the while loop, lines 73-80.  The code pops the last
\* pending cell; any pending cell may be taken here, so that every
\* traversal order is a behaviour.
FloodStep ==
    /\ fpc = "run" /\ stack # <<>>
    /\ \E i \in 1..Len(stack) :
         \E s \in {flood_pop(to_tuple_board(board),
                              [seen |-> seen, stack |-> stack, exc |-> None], i)} :
            /\ seen' = s.seen /\ stack' = s.stack
            /\ fpc' = IF s.exc # None THEN "raised" ELSE fpc
            /\ last' = IF s.exc # None
                       THEN [op |-> "flood_fill_area", ret |-> NoDist, exc |-> s.exc]
                       ELSE last
    /\ UNCHANGED <<inputVars, cache, agentVars, otherVars>>

\* line 81
FloodReturn ==
    /\ fpc = "run" /\ stack = <<>>
    /\ fpc' = "done"
    /\ last' = [op |-> "flood_fill_area", ret |-> Cardinality(seen), exc |-> None]
    /\ UNCHANGED <<inputVars, seen, stack, cache, agentVars, otherVars>>

NextBoard == LegalMoves \/ FloodCall \/ FloodStep \/ FloodReturn

SpecBoard == InitBoard /\ [][NextBoard]_vars

---------------------------------------------------------------------------
(* C7, C8                                                                  *)

\* The cells next to p that are on the board and OPEN.
OpenNeighbours(b, p) ==
    {n \in {Dest(p, d) : d \in DirSet} : OnBoard(b, n) /\ Cell(b, n[1], n[2]) = OPEN}

\* The 4-connected component of OPEN cells that contains the set S.
RECURSIVE Component(_, _)
Component(b, S) ==
    LET N == S \cup UNION {OpenNeighbours(b, p) : p \in S}
    IN IF N = S THEN S ELSE Eager(LAMBDA T : Component(b, T), N)

\* C7: legal_moves(board, pos) lists, once each, exactly the directions
\* whose destination is a cell of the board holding OPEN; in particular it
\* is empty when no neighbour is such a cell.
C7_LegalMovesExact ==
    last.op = "legal_moves" =>
        /\ \A d \in DirSet :
             d \in Range(last.ret) <=>
                 (OnBoard(board, Dest(you, d))
                    /\ Cell(board, Dest(you, d)[1], Dest(you, d)[2]) = OPEN)
        /\ Cardinality(Range(last.ret)) = Len(last.ret)
        /\ (OpenNeighbours(board, you) = {} => last.ret = <<>>)

\* A call that keeps one direction, drops one for a wall and one for the
\* edge of the arena.
C7_Witness ==
    /\ last.op = "legal_moves"
    /\ Len(last.ret) >= 1
    /\ \E d \in DirSet : ~OnBoard(board, Dest(you, d))
    /\ \E d \in DirSet : OnBoard(board, Dest(you, d))
                           /\ Cell(board, Dest(you, d)[1], Dest(you, d)[2]) = WALL

\* The same with no legal direction at all.
C7_WitnessTrapped ==
    /\ last.op = "legal_moves" /\ last.ret = <<>> /\ OnBoard(board, you)

\* What flood_fill_area is to return for (b, start).
FloodCount(b, start) ==
    IF ~OnBoard(b, start) \/ Cell(b, start[1], start[2]) # OPEN THEN 0
    ELSE Cardinality(Component(b, {start}))

\* C8: flood_fill_area returns 0 for a start off the board or not OPEN and
\* otherwise the size of the 4-connected component of OPEN cells of start,
\* whatever order the pending cells are taken in; the last-in-first-out
\* order of the code gives the same count.
C8_FloodFillCount ==
    /\ (fpc = "done" => last.ret = FloodCount(board, you))
    /\ flood_fill_uncached(to_tuple_board(board), you) = FloodCount(board, you)

\* A finished traversal of a component of three or more cells that is not
\* the whole board.
C8_Witness ==
    /\ fpc = "done" /\ last.op = "flood_fill_area"
    /\ last.ret >= 3 /\ last.ret < H * W
    /\ \E p \in Positions : Cell(board, p[1], p[2]) = OPEN /\ p \notin seen

---------------------------------------------------------------------------
(* Spec: heuristic_score and choose_move called on every arena board,      *)
(* every pair of positions and every opponent heading.  The opponent and   *)
(* its heading may be missing from the state, as in the state message of   *)
(* case_closed_game.py build_state.                                        *)

Init ==
    /\ board \in Boards
    /\ you \in Positions
    /\ opp \in Positions \cup {NoOpp}
    /\ oppDir \in DirSet \cup {NoDir}
    /\ maxDepth = 0
    /\ given = [board |-> board, you |-> you, opp |-> opp]
    /\ last = NoCall
    /\ NoOther
    /\ NoFlood
    /\ cache = <<>>
    /\ NoAgent

\* heuristic_score(state, m): a first call, or the same call once more.
HeuristicScore ==
    \E m \in DirSet : \E r \in {heuristic_score(board, you, opp, oppDir, m)} :
           /\ last = NoCall \/ (last.op = "heuristic_score" /\ last.move = m)
           /\ last' = [op |-> "heuristic_score", move |-> m, ret |-> r.ret,
                       terms |-> r.terms]
           /\ board' = r.board
           /\ UNCHANGED <<given, you, opp, oppDir, maxDepth, floodVars, cache, agentVars, otherVars>>

\* choose_move(state): a first call, or the same call once more.
ChooseMove ==
    \E r \in choose_move(board, you, opp, oppDir) :
        /\ last = NoCall \/ last.op = "choose_move"
        /\ last' = [op |-> "choose_move", ret |-> r.ret]
        /\ board' = r.board
        /\ UNCHANGED <<given, you, opp, oppDir, maxDepth, floodVars, cache, agentVars, otherVars>>

Next == HeuristicScore \/ ChooseMove

Spec == Init /\ [][Next]_vars

---------------------------------------------------------------------------
(* C1 - C5                                                                 *)

\* The directions from p whose destination is a cell of b holding OPEN.
LegalDirs(b, p) ==
    {d \in DirSet : OnBoard(b, Dest(p, d)) /\ Cell(b, Dest(p, d)[1], Dest(p, d)[2]) = OPEN}

\* The destination of direction d from p is off the board or a wall cell.
Blocked(b, p, d) ==
    ~OnBoard(b, Dest(p, d)) \/ Cell(b, Dest(p, d)[1], Dest(p, d)[2]) = WALL

\* C1: heuristic_score returns W_FATAL for every candidate whose
\* destination is out of bounds or a wall cell; every score it returns is
\* either W_FATAL or strictly greater, and it is strictly greater for a
\* candidate whose destination is neither blocked nor the opponent's cell.
C1_FatalSentinel ==
    (last.op = "heuristic_score" /\ opp # NoOpp) =>
        /\ last.ret.kind = "score"
        /\ Blocked(board, you, last.move) => ScoreEQ(last.ret, Fatal)
        /\ ~ScoreEQ(last.ret, Fatal) => ScoreLT(Fatal, last.ret)
        /\ (~Blocked(board, you, last.move) /\ Dest(you, last.move) # opp)
              => ScoreLT(Fatal, last.ret)

\* A candidate onto a wall cell scored W_FATAL.
C1_Witness ==
    /\ last.op = "heuristic_score" /\ opp # NoOpp
    /\ OnBoard(board, Dest(you, last.move))
    /\ Blocked(board, you, last.move)
    /\ last.ret = Fatal

\* A safe candidate with a negative score, still above W_FATAL.
C1_WitnessSafe ==
    /\ last.op = "heuristic_score" /\ opp # NoOpp
    /\ ~Blocked(board, you, last.move)
    /\ last.ret.num < 0 /\ ScoreLT(Fatal, last.ret)

\* The priority order of the directions.
Priority(d) == CASE d = "UP" -> 1 [] d = "DOWN" -> 2 [] d = "LEFT" -> 3 [] d = "RIGHT" -> 4

\* C2: with at least one legal direction (and the opponent given),
\* choose_move returns a legal direction whose score no legal direction
\* exceeds, the first in the order UP, DOWN, LEFT, RIGHT among those of
\* equal score; with exactly one legal direction it returns that one.
C2_ChooseMoveBest ==
    (last.op = "choose_move" /\ opp # NoOpp /\ LegalDirs(board, you) # {}) =>
        LET sc(d) == heuristic_score(board, you, opp, oppDir, d).ret
        IN /\ last.ret.kind = "move"
           /\ last.ret.move \in LegalDirs(board, you)
           /\ \A d \in LegalDirs(board, you) :
                /\ ~ScoreLT(sc(last.ret.move), sc(d))
                /\ ScoreEQ(sc(d), sc(last.ret.move))
                      => Priority(last.ret.move) <= Priority(d)
           /\ \A d \in DirSet : LegalDirs(board, you) = {d} => last.ret.move = d

\* Two legal directions tie for the best score, the later one was not
\* returned, and a third legal direction scores lower.
C2_Witness ==
    /\ last.op = "choose_move" /\ opp # NoOpp /\ last.ret.kind = "move"
    /\ LET sc(d) == heuristic_score(board, you, opp, oppDir, d).ret
       IN /\ \E d \in LegalDirs(board, you) :
               d # last.ret.move /\ ScoreEQ(sc(d), sc(last.ret.move))
                 /\ ~ScoreEQ(sc(d), Fatal)
          /\ \E d \in LegalDirs(board, you) : ScoreLT(sc(d), sc(last.ret.move))

\* C3 (as claimed): choose_move never propagates an exception raised while
\* scoring a candidate; it always returns a direction.
C3_NeverRaises ==
    last.op = "choose_move" => last.ret.kind = "move"

\* C4: with no legal direction choose_move does not raise and returns one
\* of UP, DOWN, LEFT, RIGHT.
C4_TrappedReturnsDirection ==
    (last.op = "choose_move" /\ \A d \in DirSet : Blocked(board, you, d)) =>
        /\ last.ret.kind = "move"
        /\ last.ret.move \in {"UP", "DOWN", "LEFT", "RIGHT"}

\* A trapped agent for which choose_move returned a direction other than
\* the first.
C4_Witness ==
    /\ last.op = "choose_move"
    /\ \A d \in DirSet : Blocked(board, you, d)
    /\ last.ret.kind = "move" /\ last.ret.move = "LEFT"

\* C5: heuristic_score and choose_move leave the caller's board and both
\* positions as they were given, and heuristic_score called again with the
\* same state and move returns what the call before returned.
C5_CallerStateUnchanged ==
    /\ [board |-> board, you |-> you, opp |-> opp] = given
    /\ last.op = "heuristic_score" =>
          heuristic_score(board, you, opp, oppDir, last.move).ret = last.ret

\* heuristic_score returned a score above W_FATAL, so it marked both
\* positions as walls, and both cells are still OPEN on the caller's board.
C5_Witness ==
    /\ last.op = "heuristic_score" /\ opp # NoOpp
    /\ ScoreLT(Fatal, last.ret)
    /\ Cell(board, you[1], you[2]) = OPEN
    /\ Cell(board, opp[1], opp[2]) = OPEN

---------------------------------------------------------------------------
(* C11, C17                                                                *)

\* The opponent's cell extrapolated one step along its last heading (UP
\* when the state gives none).
Extrapolated ==
    LET h == IF oppDir = NoDir THEN "UP" ELSE oppDir
    IN <<opp[1] + DELTAS[h][1], opp[2] + DELTAS[h][2]>>

\* Two sets of terms agree on path differential, threat ratio, exploration
\* bonus and local freedom.
SameOtherTerms(t, u) ==
    /\ t.my_path_len - t.opp_path_len = u.my_path_len - u.opp_path_len
    /\ t.threat_ratio.threat * u.threat_ratio.total
          = u.threat_ratio.threat * t.threat_ratio.total
    /\ t.explore = u.explore
    /\ t.freedom = u.freedom

\* The candidates other than the one just scored that are not fatal, do
\* not go to the extrapolated cell and agree with it on the other terms.
EqualCandidatesAway ==
    {m \in DirSet :
        /\ Dest(you, m) # Extrapolated
        /\ \E r \in {heuristic_score(given.board, you, opp, oppDir, m)} :
              /\ r.terms.kind = "terms"
              /\ SameOtherTerms(last.terms, r.terms)}

\* C11: a non-fatal candidate whose destination is the opponent's
\* extrapolated cell scores strictly lower than every non-fatal candidate
\* of the same state that goes elsewhere and agrees with it on path
\* differential, threat ratio, exploration bonus and local freedom; the
\* difference of the two scores is W_RISK.
C11_RiskPenalty ==
    (/\ last.op = "heuristic_score" /\ last.terms.kind = "terms"
     /\ Dest(you, last.move) = Extrapolated) =>
        \A m \in EqualCandidatesAway :
           \E r \in {heuristic_score(given.board, you, opp, oppDir, m).ret} :
              /\ ScoreLT(last.ret, r)
              /\ last.ret.num * r.den - r.num * last.ret.den
                    = W_RISK * last.ret.den * r.den

\* The candidate just scored goes to the extrapolated cell of an opponent
\* that stands on another cell than the agent, and another candidate that
\* is equal on the other terms goes elsewhere.
C11_Witness ==
    /\ last.op = "heuristic_score" /\ last.terms.kind = "terms"
    /\ Dest(you, last.move) = Extrapolated
    /\ opp # you
    /\ EqualCandidatesAway # {}

\* C17: whenever heuristic_score returns a score other than W_FATAL, the
\* head-on flag and the endgame flag it summed are both false, the
\* destination is not the opponent's cell and holds no wall on the marked
\* board, so the score is the sum of the other terms; a candidate onto the
\* opponent's cell gets W_FATAL.
C17_NoHeadonNoEndgame ==
    (last.op = "heuristic_score" /\ last.ret.kind = "score") =>
        /\ Dest(you, last.move) = opp => ScoreEQ(last.ret, Fatal)
        /\ ~ScoreEQ(last.ret, Fatal) =>
              /\ last.terms.kind = "terms"
              /\ ~last.terms.headon
              /\ ~last.terms.endgame
              /\ Dest(you, last.move) # opp
              /\ Dest(you, last.move) # you
              /\ Cell(given.board, Dest(you, last.move)[1], Dest(you, last.move)[2]) # WALL
              /\ ScoreEQ(last.ret,
                   Score((W_SURVIVAL
                            + W_PATH_DIFF * (last.terms.my_path_len - last.terms.opp_path_len)
                            + W_RISK * Bool(last.terms.risk)
                            + W_EXPLORATION * Bool(last.terms.explore)
                            + W_FREEDOM * last.terms.freedom) * last.terms.threat_ratio.total
                           + W_TERRITORY_THREAT * last.terms.threat_ratio.threat,
                         last.terms.threat_ratio.total))

\* A candidate onto the opponent's cell, which is OPEN on the caller's
\* board and next to the agent, was scored W_FATAL.
C17_Witness ==
    /\ last.op = "heuristic_score" /\ opp # NoOpp
    /\ Dest(you, last.move) = opp
    /\ Cell(given.board, opp[1], opp[2]) = OPEN
    /\ last.ret = Fatal

\* A non-fatal score on a board whose only cell left without a wall, once
\* the two positions are marked, is the destination.
C17_WitnessLastCell ==
    /\ last.op = "heuristic_score" /\ opp # NoOpp
    /\ last.terms.kind = "terms"
    /\ \A p \in Positions :
          p # Dest(you, last.move) =>
             p = you \/ p = opp \/ Cell(given.board, p[1], p[2]) = WALL

---------------------------------------------------------------------------
(* SpecThreat: territorial_threat called on every arena board, every pair  *)
(* of positions and every depth cap up to MaxDepth.                        *)

MaxDepth == 3

InitThreat ==
    /\ board \in Boards
    /\ you \in Positions
    /\ opp \in Positions
    /\ oppDir = NoDir
    /\ maxDepth \in 0..MaxDepth
    /\ given = [board |-> board, you |-> you, opp |-> opp]
    /\ last = NoCall
    /\ NoOther
    /\ NoFlood
    /\ cache = <<>>
    /\ NoAgent

\* territorial_threat(board, you, opp, maxDepth)
TerritorialThreat ==
    /\ fpc = "idle" /\ lsp.pc = "idle" /\ last = NoCall
    /\ last' = [op |-> "territorial_threat",
                ret |-> territorial_threat(board, you, opp, maxDepth),
                exc |-> territorial_threat_exc(board, you, opp, maxDepth)]
    /\ UNCHANGED <<inputVars, floodVars, cache, agentVars, otherVars>>

NextThreat == TerritorialThreat

SpecThreat == InitThreat /\ [][NextThreat]_vars

\* The cells within k steps of the set S, a step going to a neighbouring
\* cell of the board that is not a wall.
RECURSIVE Within(_, _, _)
Within(b, S, k) ==
    IF k = 0 THEN S
    ELSE Eager(LAMBDA T : Within(b, T, k - 1),
               S \cup {n \in UNION {{Dest(p, d) : d \in DirSet} : p \in S} :
                          OnBoard(b, n) /\ Cell(b, n[1], n[2]) # WALL})

\* The number of steps from p to a cell c within cap steps of it.
StepsTo(b, p, c, cap) == CHOOSE k \in 0..cap :
    c \in Within(b, {p}, k) /\ \A j \in 0..(k - 1) : c \notin Within(b, {p}, j)

\* C9: territorial_threat returns the number of cells within max_depth
\* steps of the agent that the opponent reaches in at most as many steps
\* (and within max_depth), over the number of cells within max_depth steps
\* of the agent; the ratio is in [0,1], and 0 when the opponent reaches
\* none of the agent's cells within the cap.
C9_ThreatRatio ==
    last.op = "territorial_threat" =>
        LET mine == Within(board, {you}, maxDepth)
            theirs == Within(board, {opp}, maxDepth)
            contested == {c \in mine \cap theirs :
                            StepsTo(board, opp, c, maxDepth) <= StepsTo(board, you, c, maxDepth)}
        IN /\ last.ret.total = Cardinality(mine)
           /\ last.ret.threat = Cardinality(contested)
           /\ 0 <= last.ret.threat /\ last.ret.threat <= last.ret.total
           /\ last.ret.total > 0
           /\ (mine \cap theirs = {} => last.ret.threat = 0)

\* A ratio strictly between 0 and 1 with a tie counted for the opponent,
\* a cell the opponent reaches later than the agent, and a cell that only
\* the cap keeps out of the agent's reach.
C9_Witness ==
    /\ last.op = "territorial_threat"
    /\ 0 < last.ret.threat /\ last.ret.threat < last.ret.total
    /\ LET mine == Within(board, {you}, maxDepth)
           theirs == Within(board, {opp}, maxDepth)
       IN /\ \E c \in mine \cap theirs :
               StepsTo(board, opp, c, maxDepth) = StepsTo(board, you, c, maxDepth)
          /\ \E c \in mine \cap theirs :
               StepsTo(board, opp, c, maxDepth) > StepsTo(board, you, c, maxDepth)
          /\ Within(board, {you}, maxDepth + 1) # mine

\* The opponent reaches none of the agent's cells within the cap.
C9_WitnessZero ==
    /\ last.op = "territorial_threat" /\ last.ret.threat = 0 /\ last.ret.total > 1
    /\ Within(board, {opp}, maxDepth + 2) \cap Within(board, {you}, maxDepth + 2) # {}

---------------------------------------------------------------------------
(* SpecCache: a series of flood_fill_area calls through the lru_cache, on  *)
(* the board as given and on the board with the agent's cell walled off,   *)
(* in any interleaving.                                                    *)

\* The boards of a session: the one given and the one after the move.
SessionBoards == {given.board, SetCell(given.board, you[1], you[2], WALL)}

InitCache ==
    /\ board \in Boards
    /\ you \in Positions
    /\ opp = NoOpp /\ oppDir = NoDir /\ maxDepth = 0
    /\ given = [board |-> board, you |-> you, opp |-> opp]
    /\ last = NoCall
    /\ NoOther
    /\ NoFlood
    /\ cache = <<>>
    /\ NoAgent

\* flood_fill_area(to_tuple_board(board), start) through the cache
CachedFloodFill ==
    \E start \in Positions :
      \E r \in {flood_fill_area(cache, to_tuple_board(board), start)} :
        /\ last' = [op |-> "flood_fill_area", bt |-> to_tuple_board(board),
                    start |-> start, ret |-> r.ret, hit |-> r.hit,
                    evicted |-> r.evicted]
        /\ cache' = r.cache
        /\ UNCHANGED <<inputVars, floodVars, agentVars, otherVars>>

\* The next call is made on the other board.
SwitchBoard ==
    /\ \E b \in SessionBoards : b # board /\ board' = b
    /\ UNCHANGED <<given, you, opp, oppDir, maxDepth, last, floodVars, cache, agentVars, otherVars>>

NextCache == CachedFloodFill \/ SwitchBoard

SpecCache == InitCache /\ [][NextCache]_vars

\* C10: every call returns what the uncached function computes for its own
\* board and start, on a hit as on a miss and after entries were dropped;
\* the cache never holds more than maxsize entries, nor two for one key.
C10_CacheTransparent ==
    /\ last.op = "flood_fill_area" =>
          /\ last.ret = flood_fill_uncached(last.bt, last.start)
          /\ last.ret = FloodCount(last.bt, last.start)
    /\ Len(cache) <= maxsize
    /\ \A i, j \in 1..Len(cache) : cache[i].key = cache[j].key => i = j

\* A hit, while the cache also holds an entry for the same start on the
\* other board with a different count.
C10_Witness ==
    /\ last.op = "flood_fill_area" /\ last.hit
    /\ Len(cache) = maxsize
    /\ \E i \in 1..Len(cache) :
          /\ cache[i].key[2] = last.start
          /\ cache[i].key[1] # last.bt
          /\ cache[i].val # last.ret

\* A miss that dropped the least recently used entry.
C10_WitnessEvicted ==
    /\ last.op = "flood_fill_area" /\ last.evicted /\ ~last.hit

---------------------------------------------------------------------------
(* SpecAgent: agent.py main on every input of up to MaxLines lines, with   *)
(* choose_move returning any of a range of values or raising.              *)

MaxLines == 3

\* A line of input: whitespace only, text that is not JSON, a JSON value,
\* and JSON nested so deep that json.loads raises RecursionError, which is
\* not a JSONDecodeError.
LineKinds == {"blank", "garbage", "json", "deep"}

RECURSIVE SeqsUpTo(_, _)
SeqsUpTo(S, n) ==
    IF n = 0 THEN {<<>>}
    ELSE LET shorter == SeqsUpTo(S, n - 1)
         IN shorter \cup {Append(q, x) : q \in shorter, x \in S}

\* What choose_move(state) may do as far as main can tell: return a value
\* (a direction name, a name in another case or with whitespace around it,
\* other text, something that is not a str), raise an Exception, or raise
\* a BaseException that is not an Exception (KeyboardInterrupt, SystemExit).
Outcomes ==
    {[kind |-> "return", value |-> Str(t)] :
        t \in {UP, DOWN, LEFT, RIGHT,
               <<" ", "u", "p", "\n">>, <<"D", "o", "w", "n">>,
               <<"l", "e", "f", "t", " ">>, <<"\t", "R", "I", "G", "H", "T">>,
               <<>>, <<"U", "P", "S">>, <<"U", " ", "P">>, <<"X">>}}
    \cup {[kind |-> "return", value |-> PyNone]}
    \cup {[kind |-> "raise", value |-> PyNone], [kind |-> "abort", value |-> PyNone]}

\* A loop that goes back to readline when choose_move raised.
reply_lines_none_on_raise(out) ==
    IF out.kind = "raise" THEN <<>>
    ELSE <<sanitize_move(move_after_try(out)).ret>>

\* agent.py:58-66: the lines main prints on stdout for one request.
reply_lines(out) == <<sanitize_move(move_after_try(out)).ret>>

InitAgent ==
    /\ board = <<>> /\ you = <<>> /\ opp = NoOpp /\ oppDir = NoDir /\ maxDepth = 0
    /\ given = [board |-> board, you |-> you, opp |-> opp]
    /\ last = NoCall
    /\ NoOther
    /\ NoFlood
    /\ cache = <<>>
    /\ apc = "read"
    /\ stdin \in SeqsUpTo(LineKinds, MaxLines)
    /\ stdout = <<>>
    /\ stderr = 1

\* agent.py:41-54: readline, the end of input, a blank line, json.loads
AgentRead ==
    /\ apc = "read"
    /\ IF stdin = <<>>
       THEN apc' = "done" /\ stderr' = stderr + 1 /\ UNCHANGED stdin
       ELSE /\ stdin' = Tail(stdin)
            /\ apc' = CASE Head(stdin) = "json" -> "call"
                         [] Head(stdin) = "deep" -> "crashed"
                         [] OTHER -> "read"
            /\ stderr' = IF Head(stdin) \in {"garbage", "deep"} THEN stderr + 1 ELSE stderr
    /\ UNCHANGED <<inputVars, last, floodVars, cache, stdout, otherVars>>

\* agent.py:58-66: choose_move, sanitize_move, print
AgentMove ==
    /\ apc = "call"
    /\ \E out \in Outcomes :
         /\ last' = [op |-> "main", out |-> out]
         /\ IF out.kind = "abort"
            THEN apc' = "crashed" /\ stderr' = stderr + 1 /\ UNCHANGED stdout
            ELSE \E m \in {sanitize_move(move_after_try(out))} :
                   /\ apc' = "read"
                   /\ stdout' = stdout \o reply_lines(out)
                   /\ stderr' = stderr + m.warned + (IF out.kind = "raise" THEN 1 ELSE 0)
    /\ UNCHANGED <<inputVars, floodVars, cache, stdin, otherVars>>

NextAgent == AgentRead \/ AgentMove

SpecAgent == InitAgent /\ [][NextAgent]_vars

\* C6: every line the agent writes to stdout is exactly one of UP, DOWN,
\* LEFT, RIGHT, whatever the input lines and whatever choose_move returns
\* or raises.
C6_OnlyDirectionsOnStdout ==
    \A i \in 1..Len(stdout) :
        stdout[i] \in {<<"U", "P">>, <<"D", "O", "W", "N">>,
                       <<"L", "E", "F", "T">>, <<"R", "I", "G", "H", "T">>}

\* choose_move returned a direction name in lower case with whitespace
\* around it, after a line was already answered, and both lines are out.
C6_Witness ==
    /\ last.op = "main" /\ last.out.kind = "return"
    /\ last.out.value = Str(<<"l", "e", "f", "t", " ">>)
    /\ Len(stdout) = 2 /\ stdout[2] = LEFT

\* choose_move raised and the line written is UP.
C6_WitnessRaise ==
    /\ last.op = "main" /\ last.out.kind = "raise"
    /\ Len(stdout) >= 1 /\ stdout[Len(stdout)] = UP

---------------------------------------------------------------------------
(* C18                                                                     *)

\* main is a sequential program: it goes on as long as it can.
SpecAgentFair == SpecAgent /\ WF_vars(NextAgent)

\* The request read and not yet answered: main is between json.loads and
\* print.
Pending == apc = "call"

\* C18: the agent answers requests one for one and in order: a line is
\* read only when no request is pending and reading writes nothing; a line
\* that parses as JSON becomes the pending request; a pending request is
\* ended by exactly one direction line on stdout, also when choose_move
\* raises an Exception, and nothing else is ever written to stdout; and
\* the process terminates when the input stream ends.
C18_OneForOne ==
    /\ [][/\ stdin' # stdin =>
              /\ ~Pending /\ stdin' = Tail(stdin) /\ stdout' = stdout
              /\ (Head(stdin) = "json" <=> Pending')
          /\ stdout' # stdout =>
              /\ Pending /\ ~Pending' /\ stdin' = stdin
              /\ \E d \in {UP, DOWN, LEFT, RIGHT} : stdout' = Append(stdout, d)
          /\ (Pending /\ apc' = "read") => Len(stdout') = Len(stdout) + 1
          /\ (Pending /\ last'.out.kind # "abort") => apc' = "read"]_vars
    /\ [](apc = "done" => stdin = <<>>)
    /\ (stdin = <<>> ~> apc \in {"done", "crashed"})
    /\ <>(apc \in {"done", "crashed"})

\* The input has ended and the process with it, every line of the input
\* was a request and has its answer, the last one after choose_move raised.
C18_Witness ==
    /\ apc = "done" /\ stdin = <<>>
    /\ Len(stdout) = MaxLines
    /\ last.op = "main" /\ last.out.kind = "raise"

---------------------------------------------------------------------------
(* SpecCorridor: heuristic_score and choose_move in the arena of board.py  *)
(* itself, on the boards where the agent stands between a corridor and an  *)
(* open rectangle.                                                         *)

\* board.py:13
ArenaH == 18
ArenaW == 20

\* The longest corridor and the longest side of the rectangle.
MaxCorridor == 8
MaxSide == 3

\* The board with a corridor of len cells in row r to the left of the
\* agent's cell <<r, len>>, one cell wide and closed at its far end, and an
\* open rectangle of h rows and w columns to the right of the agent's
\* cell; every other cell, the agent's own included, holds a wall.
CorridorBoard(len, h, w, r) ==
    [i \in 1..ArenaH |-> [j \in 1..ArenaW |->
        IF \/ (i - 1 = r /\ j - 1 < len)
           \/ (i - 1 < h /\ j - 1 > len /\ j - 1 <= len + w)
        THEN OPEN ELSE WALL]]

InitCorridor ==
    /\ \E len \in 1..MaxCorridor : \E h \in 2..MaxSide : \E w \in 2..MaxSide :
         \E r \in 0..(h - 1) :
            /\ board = CorridorBoard(len, h, w, r)
            /\ you = <<r, len>>
    /\ opp = <<ArenaH - 1, ArenaW - 1>>
    /\ oppDir \in {"LEFT", NoDir}
    /\ maxDepth = 0
    /\ given = [board |-> board, you |-> you, opp |-> opp]
    /\ last = NoCall
    /\ arena = <<ArenaH, ArenaW>> /\ lsp = NoPath /\ game = NoGame
    /\ NoFlood
    /\ cache = <<>>
    /\ NoAgent

SpecCorridor == InitCorridor /\ [][Next]_vars

\* The cells without a wall in the agent's row to its left, and the cells
\* without a wall in the columns to its right.
CorridorCells ==
    {p \in {you[1]} \X (0..(you[2] - 1)) : Cell(given.board, p[1], p[2]) # WALL}
AreaCells ==
    {p \in (0..(ArenaH - 1)) \X ((you[2] + 1)..(ArenaW - 1)) :
        Cell(given.board, p[1], p[2]) # WALL}

\* C12 (as claimed): when the rectangle has more cells than the corridor,
\* longest_safe_path from the destination in the rectangle is strictly
\* greater than from the destination in the corridor, on the marked board,
\* and so is the W_PATH_DIFF term of heuristic_score.
C12_OpenAreaPreferred ==
    (/\ last.op = "heuristic_score" /\ last.move = "RIGHT"
     /\ last.terms.kind = "terms"
     /\ Cardinality(AreaCells) > Cardinality(CorridorCells)) =>
        \E t \in {heuristic_score(given.board, you, opp, oppDir, "LEFT").terms} :
           /\ t.kind = "terms"
           /\ last.terms.my_path_len > t.my_path_len
           /\ W_PATH_DIFF * (last.terms.my_path_len - last.terms.opp_path_len)
                 > W_PATH_DIFF * (t.my_path_len - t.opp_path_len)


---------------------------------------------------------------------------
(* SpecPath: longest_safe_path run step by step, one action per iteration  *)
(* of its while loop, on every board of a PathH x PathW arena and from     *)
(* every cell of it.                                                       *)

PathH == 3
PathW == 3

PathBoards == [1..PathH -> [1..PathW -> MARKERS]]
PathPositions == (0..(PathH - 1)) \X (0..(PathW - 1))

InitPath ==
    /\ board \in PathBoards
    /\ you \in PathPositions
    /\ opp = NoOpp /\ oppDir = NoDir /\ maxDepth = 0
    /\ given = [board |-> board, you |-> you, opp |-> opp]
    /\ last = NoCall
    /\ arena = <<PathH, PathW>> /\ lsp = NoPath /\ game = NoGame
    /\ NoFlood
    /\ cache = <<>>
    /\ NoAgent

\* longest_safe_path(board, you), lines 47-50.  pops counts the
\* iterations of the loop, hits those that found their position in memo,
\* and expanded lists the positions whose neighbours were looked at.
PathCall ==
    /\ lsp.pc = "idle" /\ fpc = "idle" /\ last = NoCall
    /\ lsp' = [pc |-> "run", s |-> lsp_start(you), pops |-> 0, hits |-> 0,
               expanded |-> <<>>]
    /\ UNCHANGED <<inputVars, last, floodVars, cache, agentVars, arena, game>>

\* One iteration of the while loop, lines 52-71.
PathStep ==
    /\ lsp.pc = "run" /\ lsp.s.stack # <<>>
    /\ \E t \in {lsp_step(board, lsp.s)} :
         /\ lsp' = [pc |-> IF t.exc # None THEN "raised" ELSE "run",
                    s |-> t,
                    pops |-> lsp.pops + 1,
                    hits |-> lsp.hits + (IF t.hit THEN 1 ELSE 0),
                    expanded |-> IF t.hit THEN lsp.expanded
                                 ELSE Append(lsp.expanded,
                                             lsp.s.stack[Len(lsp.s.stack)][1])]
         /\ last' = IF t.exc # None
                    THEN [op |-> "longest_safe_path", ret |-> NoDist, exc |-> t.exc]
                    ELSE last
    /\ UNCHANGED <<inputVars, floodVars, cache, agentVars, arena, game>>

\* line 73
PathReturn ==
    /\ lsp.pc = "run" /\ lsp.s.stack = <<>>
    /\ lsp' = [lsp EXCEPT !.pc = "done"]
    /\ last' = [op |-> "longest_safe_path", ret |-> lsp.s.max_len, exc |-> None]
    /\ UNCHANGED <<inputVars, floodVars, cache, agentVars, arena, game>>

NextPath == PathCall \/ PathStep \/ PathReturn

SpecPath == InitPath /\ [][NextPath]_vars

\* The loop is a sequential program: it goes on as long as it can.
SpecPathFair == SpecPath /\ WF_vars(NextPath)

---------------------------------------------------------------------------
(* C14                                                                     *)

SetMax(S) == CHOOSE x \in S : \A y \in S : y <= x

\* The cells a simple path at p that went through vis can step to.
FreeNeighbours(b, p, vis) ==
    {n \in {Dest(p, d) : d \in DirSet} :
        /\ 0 <= n[1] /\ n[1] < Len(b) /\ 0 <= n[2] /\ n[2] < Len(b[1])
        /\ b[n[1] + 1][n[2] + 1] # WALL
        /\ n \notin vis}

\* The number of steps of the longest simple path that starts at p, having
\* gone through vis, and goes on through in-bounds non-wall cells.
RECURSIVE LongestFrom(_, _, _)
LongestFrom(b, p, vis) ==
    LET nx == FreeNeighbours(b, p, vis)
    IN IF nx = {} THEN 0
       ELSE 1 + SetMax({LongestFrom(b, n, vis \cup {n}) : n \in nx})

TrueLongest(b, start) == LongestFrom(b, start, {start})

\* C14: the value longest_safe_path returns never exceeds the number of
\* steps of the true longest simple path from start through in-bounds
\* non-wall cells.
C14_LowerBound ==
    lsp.pc = "done" =>
        /\ last.ret = longest_safe_path(board, you)
        /\ last.ret <= TrueLongest(board, you)

\* A run that found a position in its memo and returned a positive value
\* strictly below the true longest path.
C14_Witness ==
    /\ lsp.pc = "done"
    /\ lsp.hits > 0
    /\ last.ret > 0
    /\ last.ret < TrueLongest(board, you)

---------------------------------------------------------------------------
(* C15                                                                     *)

NoRepeat(q) == \A i, j \in 1..Len(q) : q[i] = q[j] => i = j

\* C15: longest_safe_path terminates on every board and start position:
\* every cell is expanded at most once, and the worklist is empty after at
\* most 1 + 4 x (number of cells) pops.
C15_Terminates ==
    /\ [](lsp.pc # "idle" =>
            /\ NoRepeat(lsp.expanded)
            /\ lsp.pops <= 1 + 4 * (PathH * PathW))
    /\ <>(lsp.pc = "done" /\ lsp.s.stack = <<>>)

\* A finished run that expanded every cell of an open board and popped
\* more pairs than it expanded cells.
C15_Witness ==
    /\ lsp.pc = "done"
    /\ \A p \in PathPositions : Cell(board, p[1], p[2]) = OPEN
    /\ Len(lsp.expanded) = PathH * PathW
    /\ lsp.pops > Len(lsp.expanded)

---------------------------------------------------------------------------
(* SpecSmall: legal_moves, flood_fill_area, longest_safe_path and          *)
(* territorial_threat called, in the 18 x 20 arena of board.py, on every   *)
(* board of at most SmallH x SmallW cells.                                 *)

SmallH == 2
SmallW == 3

SmallBoards ==
    UNION {[1..h -> [1..w -> MARKERS]] : h \in 1..SmallH, w \in 1..SmallW}
CellsOf(b) == (0..(Len(b) - 1)) \X (0..(Len(b[1]) - 1))

InitSmall ==
    /\ board \in SmallBoards
    /\ you \in CellsOf(board)
    /\ opp \in CellsOf(board)
    /\ oppDir = NoDir
    /\ maxDepth \in 1..2
    /\ given = [board |-> board, you |-> you, opp |-> opp]
    /\ last = NoCall
    /\ arena = <<ArenaH, ArenaW>> /\ lsp = NoPath /\ game = NoGame
    /\ NoFlood
    /\ cache = <<>>
    /\ NoAgent

NextSmall ==
    \/ LegalMoves
    \/ FloodCall \/ FloodStep \/ FloodReturn
    \/ PathCall \/ PathStep \/ PathReturn
    \/ TerritorialThreat

SpecSmall == InitSmall /\ [][NextSmall]_vars

\* C16: the in-bounds test is relative to the board being evaluated, so
\* legal_moves, flood_fill_area, longest_safe_path and territorial_threat
\* never read a cell outside the board they were given (no call subscripts
\* the board out of range).
C16_ReadsInsideBoard ==
    last.op \in {"legal_moves", "flood_fill_area", "longest_safe_path",
                 "territorial_threat"}
        => last.exc = None

---------------------------------------------------------------------------
(* case_closed_game.py.  A position is <<x, y>>; grid[y][x] is             *)
(* grid[y + 1][x + 1] here.  An Agent is the record of its fields; the     *)
(* board the agents share is passed along with them.                       *)

\* case_closed_game.py:22-23
EMPTY == 0
AGENT == 1

\* GameBoard's height and width (18 and 20 in the source, which are also
\* board.py's H and W), and the turn cap of Game.step (200 in the source),
\* scaled down.
GameHeight == 3
GameWidth == 4
MaxTurns == 3

\* case_closed_game.py:71
BOOSTS == 3

\* case_closed_game.py:50-54
Direction == [d \in {"UP", "DOWN", "LEFT", "RIGHT"} |->
                CASE d = "UP" -> <<0, -1>>
                  [] d = "DOWN" -> <<0, 1>>
                  [] d = "RIGHT" -> <<1, 0>>
                  [] d = "LEFT" -> <<-1, 0>>]

\* case_closed_game.py:32-34
torus_check(position) == <<position[1] % GameWidth, position[2] % GameHeight>>

\* case_closed_game.py:36-38
get_cell_state(grid, position) ==
    grid[torus_check(position)[2] + 1][torus_check(position)[1] + 1]

\* A board that ignores the write.
set_cell_state_ignored(grid, position, state) == grid

\* case_closed_game.py:40-42
set_cell_state(grid, position, state) ==
    [grid EXCEPT ![torus_check(position)[2] + 1][torus_check(position)[1] + 1] = state]

\* case_closed_game.py:63-73: the new Agent and the board with its two
\* cells set.
Agent_init(start_pos, start_dir, grid) ==
    LET second == <<start_pos[1] + Direction[start_dir][1],
                    start_pos[2] + Direction[start_dir][2]>>
    IN [agent |-> [trail |-> <<start_pos, second>>, direction |-> start_dir,
                   alive |-> TRUE, length |-> 2, boosts_remaining |-> BOOSTS],
        grid |-> set_cell_state(set_cell_state(grid, start_pos, AGENT), second, AGENT)]

\* case_closed_game.py:75-76
is_head(agent, position) == position = agent.trail[Len(agent.trail)]

\* case_closed_game.py:88-112: one pass of the for loop of Agent.move.  st
\* holds self, the other agent, the grid, whether the method has returned
\* (it then returned False), and the passes made so far: for each pass that
\* looked at a cell, the cell, its state and whether other was alive.
move_once(st, direction) ==
    IF st.returned THEN st
    ELSE IF Direction[direction] = <<-Direction[st.self.direction][1],
                                     -Direction[st.self.direction][2]>>
    THEN st
    ELSE LET head == st.self.trail[Len(st.self.trail)]
             new_head == torus_check(<<head[1] + Direction[direction][1],
                                       head[2] + Direction[direction][2]>>)
             cell_state == get_cell_state(st.grid, new_head)
             turned == [st.self EXCEPT !.direction = direction]
             pass == [new_head |-> new_head, cell_state |-> cell_state,
                      other_alive |-> st.other.alive,
                      trail |-> st.self.trail, length |-> st.self.length]
             die == [st EXCEPT !.self = [turned EXCEPT !.alive = FALSE],
                               !.returned = TRUE,
                               !.passes = Append(st.passes, pass)]
         IN IF cell_state = AGENT /\ new_head \in Range(st.self.trail)
            THEN die
            ELSE IF /\ cell_state = AGENT
                    /\ st.other.alive
                    /\ new_head \in Range(st.other.trail)
            THEN IF is_head(st.other, new_head)
                 THEN [die EXCEPT !.other = [st.other EXCEPT !.alive = FALSE]]
                 ELSE die
            ELSE [st EXCEPT !.self = [turned EXCEPT
                                        !.trail = Append(st.self.trail, new_head),
                                        !.length = st.self.length + 1],
                            !.grid = set_cell_state(st.grid, new_head, AGENT),
                            !.passes = Append(st.passes, pass)]

\* case_closed_game.py:78-113: self.move(direction, other_agent, use_boost).
\* The result holds both agents and the grid afterwards, the value
\* returned and the passes of the loop.
Agent_move(self, other, grid, direction, use_boost) ==
    LET boost == use_boost /\ self.boosts_remaining > 0
        self1 == IF boost
                 THEN [self EXCEPT !.boosts_remaining = self.boosts_remaining - 1]
                 ELSE self
        st0 == [self |-> self1, other |-> other, grid |-> grid,
                returned |-> FALSE, passes |-> <<>>]
    IN IF ~self.alive
       THEN [self |-> self, other |-> other, grid |-> grid, value |-> FALSE,
             passes |-> <<>>]
       ELSE Eager(LAMBDA st : [self |-> st.self, other |-> st.other, grid |-> st.grid,
                               value |-> ~st.returned, passes |-> st.passes],
                  IF boost THEN move_once(move_once(st0, direction), direction)
                  ELSE move_once(st0, direction))


\* case_closed_game.py:117-121.  Agent 1 starts at (1, 2) heading RIGHT as
\* in the source; agent 2 starts in the last column heading LEFT, three
\* rows above the last row, as (17, 15) is on the 18 x 20 board.
Game_init ==
    LET grid0 == [y \in 1..GameHeight |-> [x \in 1..GameWidth |-> EMPTY]]
        one == Agent_init(<<1, 2>>, "RIGHT", grid0)
        two == Agent_init(<<GameWidth - 1, GameHeight - 3>>, "LEFT", one.grid)
    IN [pc |-> "on", grid |-> two.grid, agent1 |-> one.agent, agent2 |-> two.agent,
        turns |-> 0, result |-> "None"]

\* case_closed_game.py:123-140: step(dir1, dir2, boost1, boost2) on the
\* Game g.  The result holds the Game afterwards (its field result is the
\* value returned) and what the two move calls returned.
Game_step(g, dir1, dir2, boost1, boost2) ==
    IF g.turns >= MaxTurns
    THEN [game |-> [g EXCEPT !.result =
                       IF g.agent1.length > g.agent2.length THEN "AGENT1_WIN"
                       ELSE IF g.agent2.length > g.agent1.length THEN "AGENT2_WIN"
                       ELSE "DRAW"],
          capped |-> TRUE, moves |-> <<>>]
    ELSE Eager(LAMBDA m1 :
           Eager(LAMBDA m2 :
                   [game |-> [g EXCEPT !.grid = m2.grid,
                                       !.agent1 = m2.other,
                                       !.agent2 = m2.self,
                                       !.turns = g.turns + 1,
                                       !.result =
                                          IF ~m1.value /\ ~m2.value THEN "DRAW"
                                          ELSE IF ~m1.value THEN "AGENT2_WIN"
                                          ELSE IF ~m2.value THEN "AGENT1_WIN"
                                          ELSE "None"],
                    capped |-> FALSE,
                    moves |-> <<[value |-> m1.value, passes |-> m1.passes,
                                 alive |-> m1.self.alive, trail |-> m1.self.trail,
                                 length |-> m1.self.length],
                                [value |-> m2.value, passes |-> m2.passes,
                                 alive |-> m2.self.alive, trail |-> m2.self.trail,
                                 length |-> m2.self.length]>>],
                 Agent_move(m1.other, m1.self, m1.grid, dir2, boost2)),
           Agent_move(g.agent1, g.agent2, g.grid, dir1, boost1))

\* case_closed_game.py:150-164: the dict sent to the agent; keys that are
\* not in the dict are NoOpp and NoDir.
build_state(g) ==
    [board |-> [y \in 1..GameHeight |-> [x \in 1..GameWidth |->
                   IF g.grid[y][x] = 0 THEN "." ELSE "X"]],
     you |-> <<g.agent1.trail[Len(g.agent1.trail)][2],
               g.agent1.trail[Len(g.agent1.trail)][1]>>,
     opponent |-> NoOpp,
     opponent_last_direction |-> NoDir,
     turn |-> g.turns]

\* A direction name as the str choose_move returns.
NameStr(m) ==
    CASE m = "UP" -> Str(UP) [] m = "DOWN" -> Str(DOWN)
      [] m = "LEFT" -> Str(LEFT) [] m = "RIGHT" -> Str(RIGHT)

\* agent.py:58-65 for one request: what the agent process prints for an
\* outcome of choose_move(state).
agent_reply(ret) ==
    sanitize_move(move_after_try(
        IF ret.kind = "move" THEN [kind |-> "return", value |-> NameStr(ret.move)]
        ELSE [kind |-> "raise", value |-> PyNone])).ret

\* case_closed_game.py:143-148, 186-191: the line read from the agent,
\* stripped, looked up in MOVE_MAP; RIGHT when it is not a key.
move_dir_of(line) ==
    CASE strip(line) = UP -> "UP" [] strip(line) = DOWN -> "DOWN"
      [] strip(line) = LEFT -> "LEFT" [] strip(line) = RIGHT -> "RIGHT"
      [] OTHER -> "RIGHT"


---------------------------------------------------------------------------
(* SpecGame: the simulator.  The Game is stepped with any pair of          *)
(* directions and boosts (Game.step as a method), or by a turn of main's   *)
(* loop, which asks the agent process for agent 1's direction.  As in      *)
(* main, no step follows one that returned a result.                       *)

InitGame ==
    /\ board = <<>> /\ you = <<>> /\ opp = NoOpp /\ oppDir = NoDir /\ maxDepth = 0
    /\ given = [board |-> board, you |-> you, opp |-> opp]
    /\ last = NoCall
    /\ arena = <<GameHeight, GameWidth>>
    /\ lsp = NoPath
    /\ game = Game_init
    /\ NoFlood
    /\ cache = <<>>
    /\ NoAgent

\* A loop that never leaves on a result.
loop_break_never(result) == FALSE

\* case_closed_game.py:199: if result, with result None or a GameResult
\* (an Enum member, which is true).
loop_break(result) == result # "None"

\* The Game after a step, game.pc telling whether the stepping goes on
\* ("on") or has stopped on a result ("over").
Stepped(g) == [g EXCEPT !.pc = IF loop_break(g.result) THEN "over" ELSE "on"]

\* What a step leaves in last: the Game before, the arguments, the result.
StepRecord(op, dir1, dir2, r) ==
    [op |-> op, before |-> game, dir1 |-> dir1, dir2 |-> dir2,
     result |-> r.game.result, capped |-> r.capped, moves |-> r.moves]

\* game.step(dir1, dir2, boost1, boost2)
GameStep ==
    /\ game.pc = "on"
    /\ \E dir1, dir2 \in DirSet : \E boost1, boost2 \in BOOLEAN :
         \E r \in {Game_step(game, dir1, dir2, boost1, boost2)} :
            /\ game' = Stepped(r.game)
            /\ last' = StepRecord("step", dir1, dir2, r)
    /\ UNCHANGED <<inputVars, floodVars, cache, agentVars, arena, lsp>>

\* case_closed_game.py:181-201: one turn of main's loop.  The state message
\* goes to the agent process, which calls choose_move on it and prints its
\* reply; the reply decides agent 1's direction, agent 2 goes LEFT.
MainTurn ==
    /\ game.pc = "on"
    /\ \E state \in {build_state(game)} :
         \E out \in choose_move(state.board, state.you, state.opponent,
                                state.opponent_last_direction) :
           \E reply \in {agent_reply(out.ret)} :
             \E r \in {Game_step(game, move_dir_of(reply), "LEFT", FALSE, FALSE)} :
                /\ game' = Stepped(r.game)
                /\ last' = [op |-> "main", before |-> game, state |-> state,
                            out |-> out.ret, reply |-> reply,
                            dir1 |-> move_dir_of(reply), dir2 |-> "LEFT",
                            result |-> r.game.result, capped |-> r.capped,
                            moves |-> r.moves]
    /\ UNCHANGED <<inputVars, floodVars, cache, agentVars, arena, lsp>>

NextGame == GameStep \/ MainTurn

SpecGame == InitGame /\ [][NextGame]_vars


\* C13 (as claimed): the state message of every turn of main carries the
\* board, the agent's position and the opponent's position, its cells
\* hold the markers the engine reads as OPEN and WALL, and the line the
\* agent process replies with is the direction choose_move returned for
\* that message, not the fallback for an exception.
C13_WellFormedSnapshot ==
    last.op = "main" =>
        /\ last.state.opponent # NoOpp
        /\ \A y \in 1..Len(last.state.board) : \A x \in 1..Len(last.state.board[y]) :
              last.state.board[y][x] \in {OPEN, WALL}
        /\ last.out.kind = "move"
        /\ Str(last.reply) = NameStr(last.out.move)

\* C19 (as claimed): after a step made before the turn cap, the result
\* agrees with the alive flags of the two agents.
C19_ResultAgreesWithAlive ==
    (last.op \in {"step", "main"} /\ ~last.capped) =>
        /\ last.result = "AGENT1_WIN" => (game.agent1.alive /\ ~game.agent2.alive)
        /\ last.result = "AGENT2_WIN" => (game.agent2.alive /\ ~game.agent1.alive)
        /\ last.result = "DRAW" => (~game.agent1.alive /\ ~game.agent2.alive)
        /\ last.result = "None" => (game.agent1.alive /\ game.agent2.alive)

\* C20 (as claimed): in every step, a pass of a living agent's move that
\* is not a reversal and targets a cell marked as trail kills that agent:
\* move returns False, the agent is not alive, and its trail and length
\* are what they were before the pass.
C20_TrailCellKills ==
    (last.op \in {"step", "main"} /\ ~last.capped) =>
        \A k \in 1..2 : \A j \in 1..Len(last.moves[k].passes) :
            last.moves[k].passes[j].cell_state = AGENT =>
                /\ ~last.moves[k].value
                /\ ~last.moves[k].alive
                /\ last.moves[k].trail = last.moves[k].passes[j].trail
                /\ last.moves[k].length = last.moves[k].passes[j].length

---------------------------------------------------------------------------
(* SpecSteps: any sequence of calls of Game.step, those made after a step  *)
(* has returned a result included.                                         *)

\* The arguments a call of step is made with.  At the turn cap step reads
\* none of them (lines 124-130), and one choice stands for all.
StepDirs(g) == IF g.turns >= MaxTurns THEN {"UP"} ELSE DirSet
StepBoosts(g) == IF g.turns >= MaxTurns THEN {FALSE} ELSE BOOLEAN

\* game.step(dir1, dir2, boost1, boost2) on a Game that has already
\* returned a result.
GameStepAgain ==
    /\ game.pc = "over"
    /\ \E dir1, dir2 \in StepDirs(game) : \E boost1, boost2 \in StepBoosts(game) :
         \E r \in {Game_step(game, dir1, dir2, boost1, boost2)} :
            /\ game' = Stepped(r.game)
            /\ last' = StepRecord("step", dir1, dir2, r)
    /\ UNCHANGED <<inputVars, floodVars, cache, agentVars, arena, lsp>>

NextSteps == GameStep \/ GameStepAgain

SpecSteps == InitGame /\ [][NextSteps]_vars

GridCells == (0..(GameWidth - 1)) \X (0..(GameHeight - 1))

\* C21: across any sequence of Game.step calls, a grid cell once marked as
\* trail never reverts to empty, every cell in either agent's trail is
\* marked as trail on the grid, and each agent's length equals the number
\* of cells in its trail.
C21_TrailInvariant ==
    /\ [][\A p \in GridCells :
             get_cell_state(game.grid, p) = AGENT
                => get_cell_state(game'.grid, p) = AGENT]_vars
    /\ [](\A a \in {game.agent1, game.agent2} :
             /\ \A k \in 1..Len(a.trail) : get_cell_state(game.grid, a.trail[k]) = AGENT
             /\ a.length = Len(a.trail)
             /\ a.length = Cardinality(Range(a.trail)))

\* A step made after the game was over, in which the surviving agent has
\* grown onto a cell of the other agent's trail.
C21_Witness ==
    /\ last.op = "step" /\ last.before.pc = "over"
    /\ game.agent2.alive /\ ~game.agent1.alive
    /\ game.agent2.length > last.before.agent2.length
    /\ game.agent2.trail[Len(game.agent2.trail)] \in Range(game.agent1.trail)

\* A boosted move whose second pass died: the first pass's cell stays in
\* the trail and on the grid.
C21_WitnessBoost ==
    /\ last.op = "step" /\ ~last.capped
    /\ ~last.moves[1].value
    /\ Len(last.moves[1].passes) = 2
    /\ game.agent1.length = last.before.agent1.length + 1

---------------------------------------------------------------------------
(* C22                                                                     *)

\* The simulator is a sequential program: it goes on as long as it can.
SpecGameFair == SpecGame /\ WF_vars(NextGame)

\* C22: every simulated game ends.  Whatever the directions requested, a
\* call of step made before the turn cap adds one to the turn counter, the
\* call made at the cap (the one after MaxTurns calls) returns a result,
\* the counter never exceeds the cap, no step follows the first result
\* that is not None, and such a result is eventually returned.
C22_GameEnds ==
    /\ [][game' # game =>
            /\ last'.capped <=> game.turns >= MaxTurns
            /\ last'.capped => last'.result # "None" /\ game'.turns = game.turns
            /\ ~last'.capped => game'.turns = game.turns + 1
            /\ game'.result = last'.result]_vars
    /\ [](game.turns <= MaxTurns)
    /\ [](game.result # "None" => game.pc = "over")
    /\ [][game.pc = "over" => UNCHANGED <<game, last>>]_vars
    /\ <>(game.pc = "over" /\ game.result # "None")

\* A game of reversals only: both agents are where they started, and the
\* call after MaxTurns calls has returned DRAW.
C22_Witness ==
    /\ game.pc = "over" /\ last.op = "step" /\ last.capped
    /\ game.turns = MaxTurns
    /\ game.agent1.length = 2 /\ game.agent2.length = 2
    /\ game.agent1.alive /\ game.agent2.alive
    /\ game.result = "DRAW"

\* main's loop has stopped on the result of a turn in which the agent
\* process answered.
C22_WitnessMain ==
    /\ game.pc = "over" /\ last.op = "main"
    /\ last.result # "None"

============================================================================
